---- MODULE Spec2Model ----
(***************************************************************************)
(* Roof-Window Assistant (src/app.py): the natural-language-to-SQL         *)
(* pipeline of one Streamlit session.  One script run (top of app.py to    *)
(* the st.stop() it reaches) is one action; the fuzzy column mapping is an *)
(* operator over strings, applied in an arbitrary order of the token set.  *)
(* SQL text, column names and tokens are TLA+ strings; a character is a    *)
(* string of length one.                                                   *)
(***************************************************************************)
EXTENDS Integers, Sequences, FiniteSets, TLC

(***************************************************************************)
(* Characters and the character classes of Python's re module (ASCII).     *)
(***************************************************************************)
LowerChars == "abcdefghijklmnopqrstuvwxyz"
UpperChars == "ABCDEFGHIJKLMNOPQRSTUVWXYZ"
DigitChars == "0123456789"

Ch(s, i) == SubSeq(s, i, i)

CharsOf(s) == {Ch(s, i) : i \in 1..Len(s)}

LowerSet == CharsOf(LowerChars)
UpperSet == CharsOf(UpperChars)
DigitSet == CharsOf(DigitChars)

\* [A-Za-z_] : the first character of a token
IdentStartSet == LowerSet \cup UpperSet \cup {"_"}

\* \w = [A-Za-z0-9_] : the characters between two \b
WordCharSet == IdentStartSet \cup DigitSet

IsDigit(c) == c \in DigitSet

IsIdentStart(c) == c \in IdentStartSet

IsWordChar(c) == c \in WordCharSet

\* str.lower() and str.upper() on the letters
LowerMap == [c \in UpperSet |-> Ch(LowerChars, CHOOSE i \in 1..26 : Ch(UpperChars, i) = c)]
UpperMap == [c \in LowerSet |-> Ch(UpperChars, CHOOSE i \in 1..26 : Ch(LowerChars, i) = c)]

ToLowerChar(c) == IF c \in UpperSet THEN LowerMap[c] ELSE c

ToUpperChar(c) == IF c \in LowerSet THEN UpperMap[c] ELSE c

RECURSIVE Lower(_)
Lower(s) == IF s = "" THEN "" ELSE ToLowerChar(Head(s)) \o Lower(Tail(s))

RECURSIVE Upper(_)
Upper(s) == IF s = "" THEN "" ELSE ToUpperChar(Head(s)) \o Upper(Tail(s))

Max(a, b) == IF a >= b THEN a ELSE b
Min(a, b) == IF a <= b THEN a ELSE b

(***************************************************************************)
(* Words: the maximal runs of \w characters.  Both the tokenizer and the   *)
(* \b...\b substitutions of the column mapping work on whole runs.         *)
(***************************************************************************)
\* last index of the run of word characters that starts at i
RECURSIVE RunEnd(_, _)
RunEnd(s, i) ==
    IF i < Len(s) /\ IsWordChar(Ch(s, i + 1)) THEN RunEnd(s, i + 1) ELSE i

\* the start indexes of the maximal runs of word characters of s
RunStarts(s) ==
    {i \in 1..Len(s) : IsWordChar(Ch(s, i)) /\ (i = 1 \/ ~IsWordChar(Ch(s, i - 1)))}

RunAt(s, i) == SubSeq(s, i, RunEnd(s, i))

WordsOf(s) == {RunAt(s, i) : i \in RunStarts(s)}

MinTokenLen == 3

\* re.findall(r"\b([A-Za-z_][A-Za-z0-9_]{2,})\b", sql), as a set
TokensIn(s) ==
    {w \in WordsOf(s) : IsIdentStart(Head(w)) /\ Len(w) >= MinTokenLen}

\* re.sub(rf"\b{re.escape(tok)}\b", repl, s [, flags=re.IGNORECASE]) for a
\* tok made of word characters: every whole run equal to tok is replaced
RECURSIVE ReSubFrom(_, _, _, _, _)
ReSubFrom(s, i, tok, repl, ignoreCase) ==
    IF i > Len(s) THEN ""
    ELSE IF IsWordChar(Ch(s, i))
         THEN LET e == RunEnd(s, i)
                  w == SubSeq(s, i, e)
                  hit == IF ignoreCase THEN Lower(w) = Lower(tok) ELSE w = tok
              IN  (IF hit THEN repl ELSE w) \o ReSubFrom(s, e + 1, tok, repl, ignoreCase)
         ELSE Ch(s, i) \o ReSubFrom(s, i + 1, tok, repl, ignoreCase)

\* re.sub with count=1: only the first whole run equal to tok is replaced
RECURSIVE ReSubOnceFrom(_, _, _, _, _)
ReSubOnceFrom(s, i, tok, repl, ignoreCase) ==
    IF i > Len(s) THEN ""
    ELSE IF IsWordChar(Ch(s, i))
         THEN LET e == RunEnd(s, i)
                  w == SubSeq(s, i, e)
                  hit == IF ignoreCase THEN Lower(w) = Lower(tok) ELSE w = tok
              IN  IF hit THEN repl \o SubSeq(s, e + 1, Len(s))
                  ELSE w \o ReSubOnceFrom(s, e + 1, tok, repl, ignoreCase)
         ELSE Ch(s, i) \o ReSubOnceFrom(s, i + 1, tok, repl, ignoreCase)

ReSubOnce(s, tok, repl, ignoreCase) == ReSubOnceFrom(s, 1, tok, repl, ignoreCase)

\* re.sub without the \b anchors: every occurrence of tok is replaced, also
\* inside a longer word.  tok is made of word characters, so an occurrence
\* lies within one run: w is a run, scanned from index i
RECURSIVE ReplaceInWord(_, _, _, _, _)
ReplaceInWord(w, i, tok, repl, ignoreCase) ==
    IF i > Len(w) THEN ""
    ELSE IF /\ i + Len(tok) - 1 <= Len(w)
            /\ IF ignoreCase
               THEN Lower(SubSeq(w, i, i + Len(tok) - 1)) = Lower(tok)
               ELSE SubSeq(w, i, i + Len(tok) - 1) = tok
         THEN repl \o ReplaceInWord(w, i + Len(tok), tok, repl, ignoreCase)
         ELSE Ch(w, i) \o ReplaceInWord(w, i + 1, tok, repl, ignoreCase)

RECURSIVE ReSubUnanchoredFrom(_, _, _, _, _)
ReSubUnanchoredFrom(s, i, tok, repl, ignoreCase) ==
    IF i > Len(s) THEN ""
    ELSE IF IsWordChar(Ch(s, i))
         THEN ReplaceInWord(RunAt(s, i), 1, tok, repl, ignoreCase)
                \o ReSubUnanchoredFrom(s, RunEnd(s, i) + 1, tok, repl, ignoreCase)
         ELSE Ch(s, i) \o ReSubUnanchoredFrom(s, i + 1, tok, repl, ignoreCase)

ReSubUnanchored(s, tok, repl, ignoreCase) == ReSubUnanchoredFrom(s, 1, tok, repl, ignoreCase)

ReSub(s, tok, repl, ignoreCase) == ReSubFrom(s, 1, tok, repl, ignoreCase)

(***************************************************************************)
(* rapidfuzz (3.x: no preprocessing, so scoring is case-sensitive).        *)
(* A score is the exact fraction n/d of the percentage the library         *)
(* returns.  Tokens and column names contain no whitespace, so the         *)
(* token_sort/token_set branches of WRatio equal the plain ratios and      *)
(* never exceed them after their 0.95 scaling.                             *)
(***************************************************************************)
Score(n, d) == [n |-> n, d |-> d]

ScoreGE(a, b) == a.n * b.d >= b.n * a.d

ScoreGT(a, b) == a.n * b.d > b.n * a.d

ScoreMax(a, b) == IF ScoreGE(a, b) THEN a ELSE b

\* one row of the longest-common-subsequence table: acc holds the entries
\* of the row left of column j, prev the row above
RECURSIVE LcsRowFrom(_, _, _, _, _)
LcsRowFrom(prev, c, b, j, acc) ==
    IF j > Len(b) THEN acc
    ELSE LET diag == IF j = 1 THEN 0 ELSE prev[j - 1]
             left == IF j = 1 THEN 0 ELSE acc[j - 1]
             v    == IF c = Ch(b, j) THEN diag + 1 ELSE Max(prev[j], left)
             next == Append(acc, v)
         IN  IF Len(next) = j THEN LcsRowFrom(prev, c, b, j + 1, next) ELSE next

RECURSIVE LcsRows(_, _, _, _)
LcsRows(a, b, i, prev) ==
    IF i > Len(a) THEN prev
    ELSE LET row == LcsRowFrom(prev, Ch(a, i), b, 1, <<>>)
         IN  IF Len(row) = Len(b) THEN LcsRows(a, b, i + 1, row) ELSE row

LCS(a, b) ==
    IF Len(a) = 0 \/ Len(b) = 0 THEN 0
    ELSE LcsRows(a, b, 1, [j \in 1..Len(b) |-> 0])[Len(b)]

\* fuzz.ratio: the normalized Indel similarity, 100 * 2*LCS / (len1 + len2)
Ratio(a, b) == Score(200 * LCS(a, b), Len(a) + Len(b))

\* the windows of the longer string that fuzz.partial_ratio aligns the
\* shorter string (length m) with: short prefixes, full windows, short suffixes
Windows(long, m) ==
    LET n == Len(long)
    IN  {SubSeq(long, 1, i) : i \in 1..(m - 1)}
          \cup {SubSeq(long, i, i + m - 1) : i \in 1..(n - m + 1)}
          \cup {SubSeq(long, i, n) : i \in (n - m + 2)..n}

\* fuzz.partial_ratio
PartialRatio(a, b) ==
    LET short == IF Len(a) <= Len(b) THEN a ELSE b
        long  == IF Len(a) <= Len(b) THEN b ELSE a
        ws    == Windows(long, Len(short))
        score == [w \in ws |-> Ratio(short, w)]
        best  == CHOOSE w \in ws : \A v \in ws : ScoreGE(score[w], score[v])
    IN  score[best]

\* fuzz.WRatio
WRatio(a, b) ==
    IF Len(a) = 0 \/ Len(b) = 0 THEN Score(0, 1)
    ELSE LET hi == Max(Len(a), Len(b))
             lo == Min(Len(a), Len(b))
             r  == Ratio(a, b)
             p  == PartialRatio(a, b)
         IN  IF 2 * hi < 3 * lo            \* len_ratio < 1.5
             THEN r
             ELSE IF hi <= 8 * lo          \* PARTIAL_SCALE = 0.9
                  THEN ScoreMax(r, Score(9 * p.n, 10 * p.d))
                  ELSE ScoreMax(r, Score(6 * p.n, 10 * p.d))

ScoreCutoff == 80

None == "<None>"

\* process.extractOne(tok, COLUMNS, scorer=fuzz.WRatio, score_cutoff=80)[0]:
\* the first column, in list order, with the highest score >= the cutoff
ExtractOne(tok, cols) ==
    LET score == [i \in 1..Len(cols) |-> WRatio(tok, cols[i])]
        ok == {i \in 1..Len(cols) : ScoreGE(score[i], Score(ScoreCutoff, 1))}
    IN  IF ok = {} THEN None
        ELSE cols[CHOOSE i \in ok :
                    \A j \in ok : \/ ScoreGT(score[i], score[j])
                                  \/ ScoreGE(score[i], score[j]) /\ i <= j]

(***************************************************************************)
(* The inputs of this model: schemas, statements, identifiers, literals.   *)
(***************************************************************************)
\* ---- the schemas a cleaned dataset can have (slug-shaped column names) ----
SchemaA == <<"brand", "name", "gas", "external_width_mm_num">>
SchemaB == <<"ug_num", "uw_num", "ug", "desc">>
Schemas == {SchemaA, SchemaB}

\* the SQL texts the generation service returns in this model
Statements ==
    {"SELECT * FROM roof_df WHERE gas ILIKE '%Krypton%'",
     "SELECT Brand, width FROM roof_df WHERE name = 'Brand width'",
     "SELECT brand, colour FROM roof_df",
     "SELECT ugW_num, uGw_num FROM roof_df",
     "DELETE FROM roof_df",
     "SELECT * FROM prices"}

\* the select-list items and the literals of the statements SpecReconcile draws
Idents ==
    {"GAS", "gass", "width", "external_width_mm_num", "colour",
     "ugW_num", "uGw_num", "UG", "Ug_num", "Desc", "uwg_num"}

Literals == {"", "'Gas'", "\"gass\"", "'%Width%'"}

(***************************************************************************)
(* Safe fuzzy column mapping (app.py, lines 229-268).                      *)
(***************************************************************************)
TABLE_NAME_IN_SQL == "roof_df"

SQL_KEYWORDS ==
    {"SELECT", "FROM", "WHERE", "AND", "OR", "GROUP", "BY", "ORDER", "LIMIT", "AS", "ON",
     "LEFT", "JOIN", "INNER", "RIGHT", "DESC", "ASC", "IS", "NOT", "NULL", "LIKE", "ILIKE", "IN",
     "BETWEEN", "DISTINCT", "CASE", "WHEN", "THEN", "ELSE", "END", "UNION", "ALL",
     "COUNT", "SUM", "AVG", "MIN", "MAX", "HAVING", "CAST", "VARCHAR", "INTEGER", "NUMERIC",
     "TEXT", "REAL"}

\* the keys of column_lookup_lowercase
LowerColumns(cols) == {Lower(cols[i]) : i \in 1..Len(cols)}

\* column_lookup_lowercase[low]: a later column overwrites an earlier one
CanonicalOf(low, cols) ==
    cols[CHOOSE i \in 1..Len(cols) :
            /\ Lower(cols[i]) = low
            /\ \A j \in 1..Len(cols) : Lower(cols[j]) = low => j <= i]

\* lines 246-249 comparing the token as written, without lower() / upper()
IsSkippedCaseSensitive(tok) ==
    \/ tok = TABLE_NAME_IN_SQL
    \/ tok \in SQL_KEYWORDS
    \/ "'" \in CharsOf(tok)
    \/ "\"" \in CharsOf(tok)

\* the tokens the loop passes over with "continue" before any lookup
IsSkipped(tok) ==
    \/ Lower(tok) = Lower(TABLE_NAME_IN_SQL)
    \/ Upper(tok) \in SQL_KEYWORDS
    \/ "'" \in CharsOf(tok)
    \/ "\"" \in CharsOf(tok)

\* the tokens of the statements of this model
KnownTokens ==
    UNION {TokensIn(q) : q \in Statements \cup Idents \cup Literals}

\* ExtractOne tabulated over the schemas and tokens of this model
\* (evaluated once)
MatchTable == [cols \in Schemas |-> [tok \in KnownTokens |-> ExtractOne(tok, cols)]]

\* best_match_info[0], or None
BestMatch(tok, cols) ==
    IF cols \in Schemas /\ tok \in KnownTokens
    THEN MatchTable[cols][tok]
    ELSE ExtractOne(tok, cols)

\* lines 253-254: the token is a column name up to letter case
SubstituteExact(cur, tok, canonical_column_name) ==
    IF tok # canonical_column_name
    THEN ReSub(cur, tok, canonical_column_name, FALSE)
    ELSE cur

\* lines 259-262: the token is replaced by its best match, if it has one
SubstituteFuzzy(cur, tok, matched_column_name) ==
    IF matched_column_name # None
    THEN ReSub(cur, tok, matched_column_name, TRUE)
    ELSE cur

\* one iteration of "for tok in tokens_in_sql" on corrected_sql_query
MapToken(cur, tok, cols) ==
    IF IsSkipped(tok)
    THEN cur
    ELSE IF Lower(tok) \in LowerColumns(cols)
    THEN SubstituteExact(cur, tok, CanonicalOf(Lower(tok), cols))
    ELSE SubstituteFuzzy(cur, tok, BestMatch(tok, cols))

\* the loop over the tokens taken in the order given
RECURSIVE MapTokens(_, _, _)
MapTokens(cur, order, cols) ==
    IF order = <<>> THEN cur
    ELSE CHOOSE out \in {MapTokens(next, Tail(order), cols) :
                            next \in {MapToken(cur, Head(order), cols)}} : TRUE

\* the tokens whose iteration does something: a skipped token leaves
\* corrected_sql_query as it is wherever it comes in the iteration
Candidates(raw) == {t \in TokensIn(raw) : ~IsSkipped(t)}

\* the iteration orders of a Python set: every arrangement of its elements
RECURSIVE Orders(_)
Orders(S) ==
    IF S = {} THEN {<<>>}
    ELSE UNION {{<<x>> \o o : o \in Orders(S \ {x})} : x \in S}

\* final_sql_query for the raw statement, the schema and an iteration order
\* of the candidate tokens
Reconcile(raw, cols, order) == MapTokens(raw, order, cols)

\* every final_sql_query the loop can produce for raw
Reconciled(raw, cols) == {Reconcile(raw, cols, o) : o \in Orders(Candidates(raw))}

(***************************************************************************)
(* The session.  st.session_state is a function from the keys that are     *)
(* present to their values.  A turn of the chat is either a dict           *)
(* (system, user) or the ChatCompletionMessage object returned by the      *)
(* generation service; the object has attributes and no dict methods.      *)
(***************************************************************************)
VARIABLES
    data_file,        \* what data/roof_windows_uk.parquet holds
    COLUMNS,          \* list(roof_df.columns), fixed for the session
    event,            \* the user action that caused the last script run
    session_state,    \* st.session_state
    run,              \* what the last script run did (observation only)
    raw_sql,          \* SpecReconcile: the statement to reconcile
    pass_no,          \* SpecReconcile: number of reconciliations applied
    reconciled_sql    \* SpecReconcile: the outputs, one per pass

vars == <<data_file, COLUMNS, event, session_state, run, raw_sql, pass_no, reconciled_sql>>

\* ---- bounds ----
MaxTurns == 4         \* the chat is not grown beyond this many turns
MaxItems == 2         \* select-list items of a statement of SpecReconcile
MaxPasses == 2        \* reconciliations applied in a row in SpecReconcile

\* ---- str ordering, for sorted(COLUMNS) ----
AsciiOrder == "0123456789ABCDEFGHIJKLMNOPQRSTUVWXYZ_abcdefghijklmnopqrstuvwxyz"

Rank(c) == CHOOSE i \in 1..Len(AsciiOrder) : Ch(AsciiOrder, i) = c

RECURSIVE StrLess(_, _)
StrLess(a, b) ==
    IF b = "" THEN FALSE
    ELSE IF a = "" THEN TRUE
    ELSE IF Head(a) = Head(b) THEN StrLess(Tail(a), Tail(b))
    ELSE Rank(Head(a)) < Rank(Head(b))

RECURSIVE JoinSorted(_)
JoinSorted(S) ==
    IF S = {} THEN ""
    ELSE LET m == CHOOSE x \in S : \A y \in S : x = y \/ StrLess(x, y)
         IN  IF S = {m} THEN m ELSE m \o ", " \o JoinSorted(S \ {m})

\* SYSTEM_PROMPT: the fixed instructions around ', '.join(sorted(COLUMNS))
SYSTEM_PROMPT(cols) ==
    "Allowed columns in the 'roof_df' table: "
        \o JoinSorted({cols[i] : i \in 1..Len(cols)})

\* ---- turns ----
SystemTurn(cols) ==
    [kind |-> "dict", role |-> "system", content |-> SYSTEM_PROMPT(cols), tool_calls |-> <<>>]

UserTurn(p) ==
    [kind |-> "dict", role |-> "user", content |-> p, tool_calls |-> <<>>]

\* response.choices[0].message
AssistantMessage(content, tool_calls) ==
    [kind |-> "object", role |-> "assistant", content |-> content, tool_calls |-> tool_calls]

\* ---- st.session_state ----
Has(ss, k) == k \in DOMAIN ss

Get(ss, k, default) == IF Has(ss, k) THEN ss[k] ELSE default

Put(ss, k, v) == (k :> v) @@ ss

Pop(ss, keys) == [x \in DOMAIN ss \ keys |-> ss[x]]

EmptySession == [x \in {} |-> ""]

(***************************************************************************)
(* What the outside world hands to a script run.                           *)
(***************************************************************************)
example_questions == {"Which windows use Krypton gas?"}

\* what the user can type into the text input
Questions == example_questions \cup {"How wide are they?"}

\* tool_call.function.arguments, by what json.loads makes of the text:
\* "object" parses to a dict with the keys flagged present, "null" parses
\* to a value without .get, "invalid" raises json.JSONDecodeError
Arguments(form, has_sql, sql, has_excel, excel) ==
    [json |-> form, has_sql |-> has_sql, sql |-> sql,
     has_excel |-> has_excel, excel |-> excel]

ToolCall(name, arguments) == [name |-> name, arguments |-> arguments]

ArgumentTexts ==
    {Arguments("object", TRUE, q, TRUE, e) : q \in Statements, e \in BOOLEAN}
      \cup {Arguments("object", TRUE, q, FALSE, FALSE) : q \in Statements}
      \cup {Arguments("object", FALSE, "", TRUE, FALSE),
            Arguments("object", TRUE, "", TRUE, FALSE),
            Arguments("invalid", FALSE, "", FALSE, FALSE),
            Arguments("null", FALSE, "", FALSE, FALSE)}

Refusal == "I cannot answer that with the available columns."

\* the outcomes of openai.chat.completions.create
Responses ==
    {[kind |-> k, message |-> AssistantMessage("", <<>>)] : k \in {"RateLimitError", "Exception"}}
      \cup {[kind |-> "message", message |-> AssistantMessage(c, <<>>)] : c \in {"", Refusal}}
      \cup {[kind |-> "message",
             message |-> AssistantMessage("", <<ToolCall("execute_query", a)>>)] :
                a \in ArgumentTexts}
      \cup {[kind |-> "message",
             message |-> AssistantMessage("", <<ToolCall("get_weather", a)>>)] :
                a \in {Arguments("object", TRUE, "SELECT brand, colour FROM roof_df", TRUE, FALSE)}}

\* the outcomes of duckdb.query_df(...).df()
EngineResults == {"raises", "empty", "rows"}

\* what pd.read_parquet finds at data_file_path: a table with rows and
\* columns, a table without rows, a table without columns, or no file
DataFiles == {"table", "no_rows", "no_columns", "not_found"}

(***************************************************************************)
(* One script run, section by section.                                     *)
(***************************************************************************)
\* lines 49-64: the frame read, or pd.DataFrame() when the file is missing
\* or the frame read is empty
load_data(file) == IF file = "table" THEN "table" ELSE "empty_frame"

\* lines 66-70 without the stop on an empty frame
RoofDfEmptyIgnored(file) == FALSE

\* lines 66-70: roof_df.empty stops the run before COLUMNS is defined
RoofDfEmpty(file) == load_data(file) = "empty_frame"

\* lines 31-39: an example button was clicked
ExampleButton(ss, q) ==
    LET ss1 == Put(ss, "prompt", q)
    IN  IF Has(ss1, "chat") /\ ss1["chat"] # <<>> /\ ss1["chat"][1].role # "system"
        THEN ss1
        ELSE IF ~Has(ss1, "chat") THEN Put(ss1, "chat", <<>>) ELSE ss1

keys_to_pop == {"chat", "prompt", "sql_query", "query_result_df", "want_excel"}

\* lines 41-45 with "chat" missing from keys_to_pop
ResetButtonKeepsChat(ss) == Pop(ss, keys_to_pop \ {"chat"})

\* lines 41-45: the reset button was clicked (st.rerun() follows)
ResetButton(ss) == Pop(ss, keys_to_pop)

\* lines 148-149 leaving a missing or empty chat empty
InitChatNoSystemTurn(ss, cols) ==
    IF ~Has(ss, "chat") \/ ss["chat"] = <<>> \/ ss["chat"][1].role # "system"
    THEN Put(ss, "chat", <<>>)
    ELSE ss

\* lines 148-149
InitChat(ss, cols) ==
    IF ~Has(ss, "chat") \/ ss["chat"] = <<>> \/ ss["chat"][1].role # "system"
    THEN Put(ss, "chat", <<SystemTurn(cols)>>)
    ELSE ss

\* line 152: the text input is bound to the key "prompt"
TextInput(ss) == Put(ss, "prompt", Get(ss, "prompt", ""))

\* line 159 evaluates chat[-1].get(...): raises AttributeError when the last
\* turn is the message object
LastTurnHasGet(chat) == chat = <<>> \/ chat[Len(chat)].kind = "dict"

\* lines 158-160 with the question overwriting a last user turn instead of
\* following it
AddUserMessageReplacing(chat, user_prompt) ==
    IF chat # <<>> /\ chat[Len(chat)].role = "user"
    THEN Append(SubSeq(chat, 1, Len(chat) - 1), UserTurn(user_prompt))
    ELSE Append(chat, UserTurn(user_prompt))

\* lines 158-160 without the comparison with the last turn
AddUserMessageAlways(chat, user_prompt) == Append(chat, UserTurn(user_prompt))

\* lines 158-160
AddUserMessage(chat, user_prompt) ==
    IF \/ chat = <<>>
       \/ chat[Len(chat)].content # user_prompt
       \/ chat[Len(chat)].role # "user"
    THEN Append(chat, UserTurn(user_prompt))
    ELSE chat

\* lines 198-200
AddAssistantMessage(chat, assistant_message) ==
    IF \A i \in 1..Len(chat) : chat[i] # assistant_message
    THEN Append(chat, assistant_message)
    ELSE chat

\* what a run reports: its outcome, what it passed to the generation service,
\* the message it received, and what it passed to the mapping and the engine;
\* api_log and engine_log hold one entry per call of
\* openai.chat.completions.create (line 171) and of duckdb.query_df (line
\* 277); displayed_sql is the argument of st.code (line 273)
Report(outcome, messages, message, raw, reconciled, engine_sql, engine_called) ==
    [outcome |-> outcome, called_api |-> messages # <<>>, messages |-> messages,
     received |-> message # <<>>, message |-> message,
     raw_sql |-> raw, reconciled |-> reconciled,
     engine_called |-> engine_called, engine_sql |-> engine_sql,
     engine_result |-> None, displayed_sql |-> None,
     api_log |-> IF messages # <<>> THEN <<messages>> ELSE <<>>,
     engine_log |-> IF engine_called THEN <<engine_sql>> ELSE <<>>]

\* the run ends here (st.stop(), an uncaught exception or the last line)
Stop(ss, report) ==
    /\ Len(Get(ss, "chat", <<>>)) <= MaxTurns
    /\ session_state' = ss
    /\ run' = report

\* Reconciled tabulated over the schemas and statements of this model
\* (evaluated once)
FinalQueries == [cols \in Schemas |-> [q \in Statements |-> Reconciled(q, cols)]]

\* lines 276-286 with a zero-row result handled by the except branch
EngineOutcomeEmptyIsError(engine) ==
    IF engine \in {"raises", "empty"} THEN "execution_error" ELSE "rows"

\* lines 276-286: the except branch, the zero-row branch, or the display
EngineOutcome(engine) ==
    IF engine = "raises" THEN "execution_error"
    ELSE IF engine = "empty" THEN "empty_result"
    ELSE "rows"

\* lines 229-286 with sql_query_from_ai as the argument of duckdb.query_df
ExecuteQueryRaw(ss, messages, assistant_message, sql_query_from_ai) ==
    \E final_sql_query \in FinalQueries[COLUMNS][sql_query_from_ai],
       engine \in EngineResults :
        LET ss1 == Put(ss, "sql_query", final_sql_query)
            report ==
                [Report(EngineOutcome(engine), messages, <<assistant_message>>,
                        sql_query_from_ai, TRUE, sql_query_from_ai, TRUE)
                    EXCEPT !.engine_result = engine,
                           !.displayed_sql = final_sql_query]
        IN  IF engine = "raises"
            THEN Stop(ss1, report)
            ELSE Stop(Put(ss1, "query_result_df", engine), report)

\* lines 229-286: mapping, display and execution of sql_query_from_ai
ExecuteQuery(ss, messages, assistant_message, sql_query_from_ai) ==
    \E final_sql_query \in FinalQueries[COLUMNS][sql_query_from_ai],
       engine \in EngineResults :
        LET ss1 == Put(ss, "sql_query", final_sql_query)
            report ==
                [Report(EngineOutcome(engine), messages, <<assistant_message>>,
                        sql_query_from_ai, TRUE, final_sql_query, TRUE)
                    EXCEPT !.engine_result = engine,
                           !.displayed_sql = final_sql_query]
        IN  IF engine = "raises"
            THEN Stop(ss1, report)
            ELSE Stop(Put(ss1, "query_result_df", engine), report)

\* args.get("sql") and args.get("excel", False)
SqlArgument(args) == IF args.has_sql THEN args.sql ELSE None

ExcelArgument(args) == IF args.has_excel THEN args.excel ELSE FALSE

\* lines 202-227 without the check of the function name (lines 210-212)
ToolCallVerdictAnyFunction(assistant_message) ==
    LET tool_calls == assistant_message.tool_calls
    IN  IF tool_calls = <<>>
        THEN (IF assistant_message.content # "" THEN "refusal" ELSE "no_tool_call")
        ELSE IF tool_calls[1].arguments.json = "invalid" THEN "invalid_json"
        ELSE IF tool_calls[1].arguments.json # "object" THEN "attribute_error_args"
        ELSE IF SqlArgument(tool_calls[1].arguments) \in {None, ""} THEN "no_sql"
        ELSE "ok"

\* lines 202-227: where the validation of the message ends the run, or "ok"
ToolCallVerdict(assistant_message) ==
    LET tool_calls == assistant_message.tool_calls
    IN  IF tool_calls = <<>>
        THEN (IF assistant_message.content # "" THEN "refusal" ELSE "no_tool_call")
        ELSE IF tool_calls[1].name # "execute_query" THEN "unexpected_function"
        ELSE IF tool_calls[1].arguments.json = "invalid" THEN "invalid_json"
        ELSE IF tool_calls[1].arguments.json # "object" THEN "attribute_error_args"
        ELSE IF SqlArgument(tool_calls[1].arguments) \in {None, ""} THEN "no_sql"
        ELSE "ok"

\* lines 198-227: the message is recorded, then its tool call is validated
HandleMessage(ss, messages, assistant_message) ==
    \E ss1 \in {Put(ss, "chat", AddAssistantMessage(ss["chat"], assistant_message))} :
        LET verdict == ToolCallVerdict(assistant_message)
            report == Report(verdict, messages, <<assistant_message>>, "", FALSE, "", FALSE)
        IN  IF verdict \in {"refusal", "no_tool_call", "unexpected_function",
                            "invalid_json", "attribute_error_args"}
            THEN Stop(ss1, report)
            ELSE LET args == assistant_message.tool_calls[1].arguments
                 IN  \E ss2 \in {Put(Put(ss1, "sql_query", SqlArgument(args)),
                                     "want_excel", ExcelArgument(args))} :
                        IF verdict = "no_sql"
                        THEN Stop(ss2, report)
                        ELSE ExecuteQuery(ss2, messages, assistant_message,
                                          SqlArgument(args))

\* lines 163-196 with the call repeated once after a RateLimitError
CallOpenAIRetrying(ss) ==
    LET messages == ss["chat"]
        stop(outcome) == Stop(ss, Report(outcome, messages, <<>>, "", FALSE, "", FALSE))
        again(outcome) ==
            Stop(ss, [Report(outcome, messages, <<>>, "", FALSE, "", FALSE)
                        EXCEPT !.api_log = <<messages, messages>>])
    IN  \E api_key \in BOOLEAN :
          IF ~api_key
          THEN Stop(ss, Report("no_api_key", <<>>, <<>>, "", FALSE, "", FALSE))
          ELSE \E response \in Responses :
                 IF response.kind = "RateLimitError" THEN again("quota_exhausted")
                 ELSE IF response.kind = "Exception" THEN stop("api_call_failed")
                 ELSE HandleMessage(ss, messages, response.message)

\* lines 163-196: the key is read and the generation service is called
CallOpenAI(ss) ==
    LET messages == ss["chat"]
        stop(outcome) == Stop(ss, Report(outcome, messages, <<>>, "", FALSE, "", FALSE))
    IN  \E api_key \in BOOLEAN :
          IF ~api_key
          THEN Stop(ss, Report("no_api_key", <<>>, <<>>, "", FALSE, "", FALSE))
          ELSE \E response \in Responses :
                 IF response.kind = "RateLimitError" THEN stop("quota_exhausted")
                 ELSE IF response.kind = "Exception" THEN stop("api_call_failed")
                 ELSE HandleMessage(ss, messages, response.message)

\* lines 148-286: the script from the chat initialisation on
RunFromChatInit(ss0) ==
    \E ss1 \in {TextInput(InitChat(ss0, COLUMNS))} :
        LET user_prompt == ss1["prompt"]
            none(outcome) == Stop(ss1, Report(outcome, <<>>, <<>>, "", FALSE, "", FALSE))
        IN  IF user_prompt = "" THEN none("no_prompt")
            ELSE IF ~LastTurnHasGet(ss1["chat"]) THEN none("attribute_error")
            ELSE \E ss2 \in {Put(ss1, "chat", AddUserMessage(ss1["chat"], user_prompt))} :
                    CallOpenAI(ss2)

\* lines 48-286: a script run on the session state ss0 left by the sidebar
ScriptRun(ss0) ==
    IF RoofDfEmpty(data_file)
    THEN Stop(ss0, Report("data_unavailable", <<>>, <<>>, "", FALSE, "", FALSE))
    ELSE RunFromChatInit(ss0)

(***************************************************************************)
(* The events of a session: each one causes a script run.                  *)
(***************************************************************************)
NoReport == Report("no_prompt", <<>>, <<>>, "", FALSE, "", FALSE)

\* the user action behind a script run, and the keys a reset popped
Event(name, popped) == [name |-> name, popped |-> popped]

\* the first script run of a session: with a usable dataset the chat is
\* initialised, the input box is empty and the run stops at line 156;
\* without one the run stops at line 70
Init ==
    /\ data_file \in DataFiles
    /\ COLUMNS \in (IF RoofDfEmpty(data_file) THEN {<<>>} ELSE Schemas)
    /\ event = Event("start", {})
    /\ session_state = IF RoofDfEmpty(data_file)
                       THEN EmptySession
                       ELSE TextInput(InitChat(EmptySession, COLUMNS))
    /\ run = IF RoofDfEmpty(data_file)
             THEN Report("data_unavailable", <<>>, <<>>, "", FALSE, "", FALSE)
             ELSE NoReport
    /\ raw_sql = ""
    /\ pass_no = 0
    /\ reconciled_sql = <<>>

\* the user types a question (or clears the box) and presses enter; the
\* input box exists when the last run reached line 152
SubmitQuestion ==
    \E p \in Questions \cup {""} :
        /\ run.outcome # "data_unavailable"
        /\ p # Get(session_state, "prompt", "")
        /\ ScriptRun(Put(session_state, "prompt", p))
        /\ event' = Event("submit", {})
        /\ UNCHANGED <<data_file, COLUMNS, raw_sql, pass_no, reconciled_sql>>

\* the user clicks one of the example questions of the sidebar
ExampleQuestion ==
    \E q \in example_questions :
        /\ ScriptRun(ExampleButton(session_state, q))
        /\ event' = Event("example", {})
        /\ UNCHANGED <<data_file, COLUMNS, raw_sql, pass_no, reconciled_sql>>

\* the user clicks "Reset chat": the keys are popped and st.rerun() runs
\* the script again
ResetChat ==
    /\ ScriptRun(ResetButton(session_state))
    /\ event' = Event("reset", DOMAIN session_state \cap keys_to_pop)
    /\ UNCHANGED <<data_file, COLUMNS, raw_sql, pass_no, reconciled_sql>>

\* any other widget interaction (the download button) re-runs the script
\* with the session state as it is
Rerun ==
    /\ ScriptRun(session_state)
    /\ event' = Event("rerun", {})
    /\ UNCHANGED <<data_file, COLUMNS, raw_sql, pass_no, reconciled_sql>>

Next == SubmitQuestion \/ ExampleQuestion \/ ResetChat \/ Rerun

Spec == Init /\ [][Next]_vars

(***************************************************************************)
(* The column mapping on its own: a statement and a schema are drawn, and  *)
(* the mapping is applied to the statement and then to its own output.     *)
(***************************************************************************)
RECURSIVE SelectLists(_)
SelectLists(n) ==
    IF n = 0 THEN {}
    ELSE Idents \cup SelectLists(n - 1)
           \cup {l \o ", " \o i : l \in SelectLists(n - 1), i \in Idents}

\* the first item of a select list
FirstItem(l) ==
    IF \E i \in 1..Len(l) : Ch(l, i) = ","
    THEN SubSeq(l, 1, (CHOOSE i \in 1..Len(l) :
                          Ch(l, i) = "," /\ \A j \in 1..(i - 1) : Ch(l, j) # ",") - 1)
    ELSE l

RawStatements ==
    {"SELECT " \o l \o " FROM roof_df"
        \o (IF lit = "" THEN "" ELSE " WHERE " \o FirstItem(l) \o " = " \o lit) :
        l \in SelectLists(MaxItems), lit \in Literals}

InitReconcile ==
    /\ data_file = "table"
    /\ COLUMNS \in Schemas
    /\ event = Event("start", {})
    /\ session_state = EmptySession
    /\ run = NoReport
    /\ raw_sql \in RawStatements
    /\ pass_no = 0
    /\ reconciled_sql = <<>>

\* the mapping applied to the raw statement, then to the previous output
ReconcilePass ==
    /\ pass_no < MaxPasses
    /\ LET input == IF pass_no = 0 THEN raw_sql ELSE reconciled_sql[pass_no]
       IN  \E order \in Orders(Candidates(input)) :
              reconciled_sql' = Append(reconciled_sql, Reconcile(input, COLUMNS, order))
    /\ pass_no' = pass_no + 1
    /\ UNCHANGED <<data_file, COLUMNS, event, session_state, run, raw_sql>>

NextReconcile == ReconcilePass

SpecReconcile == InitReconcile /\ [][NextReconcile]_vars

(***************************************************************************)
(* Vocabulary of the properties.                                           *)
(***************************************************************************)
\* the conversation kept in the session: the list the next script run
\* passes as messages, after appending the question if it is new
Chat == Get(session_state, "chat", <<>>)

IsPrefix(a, b) == Len(a) <= Len(b) /\ SubSeq(b, 1, Len(a)) = a

CarriesToolCall(turn) == turn.role = "assistant" /\ turn.tool_calls # <<>>

\* every turn that carries a tool invocation is followed by exactly one
\* tool-result turn
Balanced(chat) ==
    \A i \in 1..Len(chat) :
        CarriesToolCall(chat[i]) =>
            /\ i < Len(chat)
            /\ chat[i + 1].role = "tool"
            /\ (i + 1 < Len(chat) => chat[i + 2].role # "tool")

\* the words of a statement, in order
RECURSIVE WordsFrom(_, _)
WordsFrom(s, i) ==
    IF i > Len(s) THEN <<>>
    ELSE IF IsWordChar(Ch(s, i))
         THEN <<RunAt(s, i)>> \o WordsFrom(s, RunEnd(s, i) + 1)
         ELSE WordsFrom(s, i + 1)

WordList(s) == WordsFrom(s, 1)

StartsWithSelect(s) == WordList(s) # <<>> /\ Upper(WordList(s)[1]) = "SELECT"

\* the names that follow FROM or JOIN
TableRefs(s) ==
    LET w == WordList(s)
    IN  {w[k + 1] : k \in {j \in 1..(Len(w) - 1) : Upper(w[j]) \in {"FROM", "JOIN"}}}

\* a candidate token that is no column and has no match at the cutoff
Unresolved(tok, cols) ==
    /\ Lower(tok) \notin LowerColumns(cols)
    /\ BestMatch(tok, cols) = None

\* the text of the quoted literals of a statement, delimiters included;
\* q is the quote character that is open at position i, or ""
RECURSIVE QuotedFrom(_, _, _)
QuotedFrom(s, i, q) ==
    IF i > Len(s) THEN ""
    ELSE LET c == Ch(s, i)
         IN  IF q = ""
             THEN IF c \in {"'", "\""}
                  THEN c \o QuotedFrom(s, i + 1, c)
                  ELSE QuotedFrom(s, i + 1, "")
             ELSE c \o QuotedFrom(s, i + 1, IF c = q THEN "" ELSE q)

LiteralText(s) == QuotedFrom(s, 1, "")

\* the words of a statement that stand outside its quoted literals
RECURSIVE UnquotedWordsFrom(_, _, _)
UnquotedWordsFrom(s, i, q) ==
    IF i > Len(s) THEN {}
    ELSE LET c == Ch(s, i)
         IN  IF q # ""
             THEN UnquotedWordsFrom(s, i + 1, IF c = q THEN "" ELSE q)
             ELSE IF c \in {"'", "\""} THEN UnquotedWordsFrom(s, i + 1, c)
             ELSE IF IsWordChar(c)
                  THEN {RunAt(s, i)} \cup UnquotedWordsFrom(s, RunEnd(s, i) + 1, "")
                  ELSE UnquotedWordsFrom(s, i + 1, "")

\* the candidate column references of a statement: its candidate tokens
\* outside the quoted literals
ColumnReferences(s) == Candidates(s) \cap UnquotedWordsFrom(s, 1, "")

\* the statement with its column references in canonical case: every word
\* that equals a column case-insensitively (everyWord), or only those the
\* mapping takes as candidates
RECURSIVE CanonicalFrom(_, _, _, _)
CanonicalFrom(s, i, cols, everyWord) ==
    IF i > Len(s) THEN ""
    ELSE IF IsWordChar(Ch(s, i))
         THEN LET e == RunEnd(s, i)
                  w == SubSeq(s, i, e)
                  column == /\ Lower(w) \in LowerColumns(cols)
                            /\ everyWord \/ w \in Candidates(w)
              IN  (IF column THEN CanonicalOf(Lower(w), cols) ELSE w)
                      \o CanonicalFrom(s, e + 1, cols, everyWord)
         ELSE Ch(s, i) \o CanonicalFrom(s, i + 1, cols, everyWord)

\* the outputs of the passes of SpecReconcile
FirstPass == reconciled_sql[1]
SecondPass == reconciled_sql[2]

\* the generation service returned a message in the last run
MessageOutcomes ==
    {"refusal", "no_tool_call", "unexpected_function", "invalid_json",
     "attribute_error_args", "no_sql", "execution_error", "empty_result", "rows"}

(***************************************************************************)
(* Properties of the session (specification Spec).                         *)
(***************************************************************************)
\* C1: conversation balance.  After any sequence of interactions, the
\* conversation that the next synthesis call is given has no assistant turn
\* carrying a tool invocation without exactly one tool-result turn after it.
ConversationBalance == Balanced(Chat)

\* C2: a statement with a candidate token that is no column and scores
\* below the cutoff against every column is rejected: the query engine is
\* never invoked for it.
UnresolvedTokenNotExecuted ==
    run.engine_called =>
        \A tok \in ColumnReferences(run.raw_sql) : ~Unresolved(tok, COLUMNS)

\* C3: the engine is only invoked on statements that begin with SELECT and
\* name no table other than roof_df.
OnlySelectFromRoofDf ==
    run.engine_called =>
        /\ StartsWithSelect(run.engine_sql)
        /\ \A t \in TableRefs(run.engine_sql) : Lower(t) = Lower(TABLE_NAME_IN_SQL)

\* the message is a call of execute_query whose arguments parse to an
\* object with both required arguments
WellFormedCall(m) ==
    /\ m.tool_calls # <<>>
    /\ m.tool_calls[1].name = "execute_query"
    /\ m.tool_calls[1].arguments.json = "object"
    /\ m.tool_calls[1].arguments.has_sql
    /\ m.tool_calls[1].arguments.has_excel

\* the message is a call of execute_query whose arguments parse to an
\* object with a non-empty sql argument
CallWithSql(m) ==
    /\ m.tool_calls # <<>>
    /\ m.tool_calls[1].name = "execute_query"
    /\ m.tool_calls[1].arguments.json = "object"
    /\ m.tool_calls[1].arguments.has_sql
    /\ m.tool_calls[1].arguments.sql # ""

FailureKeepsHistory ==
    [][run'.outcome \in {"quota_exhausted", "api_call_failed"} =>
          /\ ~run'.reconciled
          /\ ~run'.engine_called
          /\ IsPrefix(Chat, Chat')
          /\ Balanced(Chat')]_vars

FailureKeepsHistoryWitness ==
    /\ run.outcome \in {"quota_exhausted", "api_call_failed"}
    /\ Len(Chat) >= 3

\* C10: after an interaction in which the generation service returned a
\* message, the next question submitted is appended as a user turn and
\* reaches the synthesis call, which is sent every earlier turn in order.
FollowUpServed ==
    [][(/\ run.outcome \in MessageOutcomes
        /\ Get(session_state', "prompt", "") # ""
        /\ Get(session_state', "prompt", "") # Get(session_state, "prompt", "")) =>
          /\ run'.called_api
          /\ IsPrefix(Chat, run'.messages)
          /\ run'.messages[Len(run'.messages)] = UserTurn(session_state'["prompt"])]_vars

\* C11: a statement that executes and returns zero rows is reported as an
\* empty result, not as an execution error: the error branch is taken only
\* when the engine raises, the zero-row branch only after an execution that
\* succeeded with no rows.
EmptyResultIsNotAnError ==
    /\ run.outcome = "execution_error" =>
            run.engine_called /\ run.engine_result = "raises"
    /\ run.outcome = "empty_result" =>
            /\ run.engine_called /\ run.engine_result = "empty"
            /\ Get(session_state, "query_result_df", None) = "empty"
    /\ (run.engine_called /\ run.engine_result = "empty") =>
            run.outcome = "empty_result"

EmptyResultIsNotAnErrorWitness ==
    run.engine_called /\ run.engine_result = "empty" /\ run.outcome = "empty_result"

\* C12: after a reset, whatever the session held, the stored prompt, SQL,
\* result and export flag are gone and, in a session whose dataset loaded,
\* the conversation is exactly one system turn carrying the instructions
\* derived from the current schema.
ResetClearsSession ==
    event.name = "reset" =>
        /\ Get(session_state, "prompt", "") = ""
        /\ DOMAIN session_state \cap {"sql_query", "query_result_df", "want_excel"} = {}
        /\ data_file = "table" => Chat = <<SystemTurn(COLUMNS)>>

ResetClearsSessionWitness ==
    /\ event.name = "reset"
    /\ event.popped = keys_to_pop
    /\ Chat = <<SystemTurn(COLUMNS)>>

\* C13: whenever the generation service is called, the conversation it is
\* given is non-empty and its first turn is the system turn, also when the
\* run was started by an example question.
SystemTurnFirst ==
    run.called_api =>
        /\ run.messages # <<>>
        /\ run.messages[1] = [kind |-> "dict", role |-> "system",
                              content |-> SYSTEM_PROMPT(COLUMNS), tool_calls |-> <<>>]

SystemTurnFirstWitness ==
    /\ run.called_api
    /\ event.name = "example"
    /\ Len(run.messages) = 2
    /\ run.messages[1].role = "system"

\* C15: when the dataset has no rows, has no columns or cannot be loaded,
\* the session holds no user turn, the generation service is not called and
\* no query is executed, whatever the user does.
DataUnavailableBlocksSession ==
    data_file # "table" =>
        /\ \A i \in 1..Len(Chat) : Chat[i].role # "user"
        /\ ~run.called_api
        /\ ~run.received
        /\ ~run.engine_called
        /\ "query_result_df" \notin DOMAIN session_state

DataUnavailableBlocksSessionWitness ==
    /\ data_file \in {"no_rows", "no_columns", "not_found"}
    /\ event.name = "example"
    /\ Get(session_state, "prompt", "") \in example_questions
    /\ run.outcome = "data_unavailable"

IsUserTurn(turn) == turn.role = "user"

UserTurnsOf(chat) == SelectSeq(chat, IsUserTurn)

\* C16: a script run that finds the prompt as the previous run left it (a
\* widget interaction after a completed or a failed interaction) appends no
\* second user turn for that question.
UnchangedPromptNotAppended ==
    [][(/\ Get(session_state, "prompt", "") # ""
        /\ Get(session_state', "prompt", "") = Get(session_state, "prompt", ""))
          => UserTurnsOf(Get(session_state', "chat", <<>>)) = UserTurnsOf(Chat)]_vars

\* a re-run after a failed call: the last turn is the question, and the run
\* reaches the service again without appending it
UnchangedPromptNotAppendedWitness ==
    /\ event.name = "rerun"
    /\ run.called_api
    /\ Len(UserTurnsOf(Chat)) = 1
    /\ Chat[Len(Chat)].role = "user"

\* C17: a script run calls the generation service at most once and the
\* engine at most once, and a run that fails (quota, transport, malformed
\* call, unparseable arguments, execution error) takes no further synthesis
\* or execution step.
NoAutomaticRetries ==
    /\ Len(run.api_log) <= 1
    /\ Len(run.engine_log) <= 1
    /\ run.outcome \in {"quota_exhausted", "api_call_failed"} =>
          /\ Len(run.api_log) = 1
          /\ ~run.received
          /\ ~run.reconciled
          /\ run.engine_log = <<>>
    /\ run.outcome \in {"no_tool_call", "refusal", "unexpected_function",
                        "invalid_json", "attribute_error_args", "no_sql"} =>
          /\ Len(run.api_log) = 1
          /\ ~run.reconciled
          /\ run.engine_log = <<>>
    /\ run.outcome = "execution_error" =>
          /\ Len(run.api_log) = 1
          /\ Len(run.engine_log) = 1

NoAutomaticRetriesWitness ==
    /\ run.outcome = "quota_exhausted"
    /\ Len(run.api_log) = 1
    /\ Chat[Len(Chat)].role = "user"

\* C18: the statement passed to the engine is an output of the mapping for
\* the SQL of the tool call of this run, and it is the text displayed and
\* the text stored under "sql_query", also when the engine raises.
EngineGetsReconciledSql ==
    run.engine_called =>
        /\ run.raw_sql = run.message[1].tool_calls[1].arguments.sql
        /\ run.engine_log = <<run.engine_sql>>
        /\ run.engine_sql \in Reconciled(run.raw_sql, COLUMNS)
        /\ run.displayed_sql = run.engine_sql
        /\ session_state["sql_query"] = run.engine_sql

EngineGetsReconciledSqlWitness ==
    /\ run.outcome = "execution_error"
    /\ run.engine_sql # run.raw_sql
    /\ run.displayed_sql = run.engine_sql

(***************************************************************************)
(* Properties of the column mapping (specification SpecReconcile).         *)
(***************************************************************************)
IsSubstring(a, b) ==
    \E i \in 1..(Len(b) - Len(a) + 1) : SubSeq(b, i, i + Len(a) - 1) = a

ColumnSet(cols) == {cols[i] : i \in 1..Len(cols)}

\* the best score of tok is at or above the cutoff and one column has it
UniqueBest(tok, cols) ==
    LET score == [i \in 1..Len(cols) |-> WRatio(tok, cols[i])]
        best == {i \in 1..Len(cols) : \A j \in 1..Len(cols) : ScoreGE(score[i], score[j])}
    IN  /\ Cardinality(best) = 1
        /\ \A i \in best : ScoreGE(score[i], Score(ScoreCutoff, 1))

\* UniqueBest tabulated over the schemas and tokens of this model
UniqueBestTable == [cols \in Schemas |-> [tok \in KnownTokens |-> UniqueBest(tok, cols)]]

\* the length of the longest common prefix of two names
CommonPrefixLen(a, b) ==
    Cardinality({n \in 1..Len(a) : n <= Len(b) /\ SubSeq(a, 1, n) = SubSeq(b, 1, n)})

\* the columns that share the best score of tok, when that score is at or
\* above the cutoff and more than one column has it
TiedBest(tok, cols) ==
    LET score == [i \in 1..Len(cols) |-> WRatio(tok, cols[i])]
        best == {i \in 1..Len(cols) : \A j \in 1..Len(cols) : ScoreGE(score[i], score[j])}
    IN  IF /\ Cardinality({cols[i] : i \in best}) >= 2
           /\ \A i \in best : ScoreGE(score[i], Score(ScoreCutoff, 1))
        THEN {cols[i] : i \in best}
        ELSE {}

\* TiedBest tabulated over the schemas and tokens of this model
TiedBestTable == [cols \in Schemas |-> [tok \in KnownTokens |-> TiedBest(tok, cols)]]

\* the tied columns with the longest common prefix with tok
PrefixPreferred(tok, tied) ==
    {c \in tied : \A d \in tied : CommonPrefixLen(tok, c) >= CommonPrefixLen(tok, d)}

\* tok takes the approximate path and has one best column
HasUniqueBest(tok) ==
    /\ Lower(tok) \notin LowerColumns(COLUMNS)
    /\ UniqueBestTable[COLUMNS][tok]

\* every word of the statement that is no reserved word and not the table
\* name equals a column, case-insensitively
OnlyColumnWords(s) ==
    \A w \in WordsOf(s) :
        IsIdentStart(Head(w)) => Lower(w) \in LowerColumns(COLUMNS) \/ IsSkipped(w)

\* every candidate token of the statement equals a column, case-insensitively
OnlyColumnCandidates(s) ==
    \A tok \in Candidates(s) : Lower(tok) \in LowerColumns(COLUMNS)

ReconcileDeterministic ==
    pass_no >= 1 => Reconciled(raw_sql, COLUMNS) = {FirstPass}

\* C19: every word of the statement that is the table name or a reserved
\* word, in any letter case, stands unchanged at its place in the reconciled
\* statement, whatever was substituted for the other words.
ReservedWordsUnchanged ==
    pass_no >= 1 =>
        LET before == WordList(raw_sql)
            after  == WordList(FirstPass)
        IN  /\ Len(after) = Len(before)
            /\ \A k \in 1..Len(before) :
                  (\/ Lower(before[k]) = "roof_df"
                   \/ Upper(before[k]) \in SQL_KEYWORDS) => after[k] = before[k]

\* "Desc" is a reserved word and, up to case, a column of the schema; another
\* word of the statement was substituted
ReservedWordsUnchangedWitness ==
    /\ pass_no >= 1
    /\ "desc" \in ColumnSet(COLUMNS)
    /\ "Desc" \in WordsOf(raw_sql)
    /\ "Desc" \in WordsOf(FirstPass)
    /\ FirstPass # raw_sql

\* C20: a candidate token whose best score (at or above the cutoff) is
\* shared by several columns is replaced by the tied column with the longest
\* common prefix with the token, wherever the columns come in the schema.
TieBrokenByLongestPrefix ==
    pass_no >= 1 =>
        \A tok \in Candidates(raw_sql) :
            (/\ Lower(tok) \notin LowerColumns(COLUMNS)
             /\ TiedBestTable[COLUMNS][tok] # {}
             /\ \A other \in Candidates(raw_sql) : Lower(other) = Lower(tok) => other = tok) =>
                LET before == WordList(raw_sql)
                    after  == WordList(FirstPass)
                IN  /\ Len(after) = Len(before)
                    /\ \A k \in 1..Len(before) :
                          before[k] = tok =>
                              after[k] \in PrefixPreferred(tok, TiedBestTable[COLUMNS][tok])

\* C5: a candidate token with one best column at or above the cutoff is
\* replaced by that column at every whole-word occurrence, and a longer
\* identifier that contains it is not rewritten in part.
UniqueBestSubstituted ==
    pass_no >= 1 =>
        \A tok \in Candidates(raw_sql) :
            HasUniqueBest(tok) =>
                LET before == WordList(raw_sql)
                    after  == WordList(FirstPass)
                IN  /\ Len(after) = Len(before)
                    /\ \A k \in 1..Len(before) :
                          /\ before[k] = tok => after[k] = BestMatch(tok, COLUMNS)
                          /\ (before[k] # tok /\ IsSubstring(tok, before[k])) =>
                                after[k] \in {before[k]} \cup ColumnSet(COLUMNS)

\* C6: the mapping applied to its own output returns that output.
Idempotent ==
    \A k \in 2..pass_no : reconciled_sql[k] = reconciled_sql[k - 1]

IdempotentWitness ==
    /\ pass_no >= 2
    /\ FirstPass # raw_sql

\* C8: the text inside the quoted literals of the statement is the same in
\* the reconciled statement.
LiteralsUntouched ==
    pass_no >= 1 => LiteralText(FirstPass) = LiteralText(raw_sql)

====
